---- MODULE Spec2Model ----
(***************************************************************************)
(* A model of the stockworth screening engine (src/stockworth.py) and of   *)
(* the legacy sequential analysis (src/main.py).                           *)
(*                                                                         *)
(* Numbers are fixed point, rounded down where Python keeps a float:       *)
(*   bond yield      decimal x 10000      (0.044 -> 440)                   *)
(*   ^TNX close      percent x 10         (4.4 % -> 44)                    *)
(*   growth rate     decimal x 10000      (0.03 -> 300)                    *)
(*   CAGR            whole percent                                         *)
(*   EPS             whole currency units                                  *)
(*   price, value    cents                                                 *)
(*   margin          percent x 10         (30 % -> 300)                    *)
(*   P/E, P/B        whole numbers; debt-to-equity x 10 (0.5 -> 5)         *)
(* A Python value that may be None, NaN, inf or a missing dict key is a    *)
(* record [t, v]; t tags the kind and v holds the number.                  *)
(***************************************************************************)
EXTENDS Integers, Sequences, FiniteSets, TLC

VARIABLES
    mainPc,               \* where main() of src/stockworth.py stands
    bond_yield,           \* main's bond_yield
    bond_calls,           \* how often fetch_bond_yield was called
    tickers,              \* the list loaded from TICKERS_FILE
    tasks,                \* ticker -> the coroutine analyze_stock(ticker, bond_yield)
    results,              \* what gather returned, in the order of tickers
    idx,                  \* the position of the loop over zip(tickers, results)
    buy_recommendations,  \* main's buy_recommendations
    errors,               \* main's errors
    unavailable_file,     \* the content written to UNAVAILABLE_TICKERS_FILE
    call,                 \* a function called on its own: its name and arguments
    ret                   \* what that call returned

batchVars == <<mainPc, bond_yield, bond_calls, tickers, tasks, results, idx,
               buy_recommendations, errors, unavailable_file>>

fnVars == <<call, ret>>

vars == <<batchVars, fnVars>>

\* the bounds of the model
NumTickers == 2
MaxHist == 4
MaxIncome == 3
MaxCloses == 2

----------------------------------------------------------------------------
(* Python values *)

Num(n) == [t |-> "num", v |-> n]
None == [t |-> "None", v |-> 0]
NaN == [t |-> "nan", v |-> 0]
Inf == [t |-> "inf", v |-> 0]
Absent == [t |-> "absent", v |-> 0]
Unset == [t |-> "unset", v |-> 0]

IsNum(x) == x.t = "num"

\* a < b on floats: every comparison with NaN is False, inf is above every number
PyLt(a, b) ==
    CASE a.t = "nan" \/ b.t = "nan" -> FALSE
      [] a.t = "inf" -> FALSE
      [] b.t = "inf" -> TRUE
      [] OTHER -> a.v < b.v

\* a <= b on floats
PyLe(a, b) ==
    CASE a.t = "nan" \/ b.t = "nan" -> FALSE
      [] b.t = "inf" -> TRUE
      [] a.t = "inf" -> FALSE
      [] OTHER -> a.v <= b.v

\* min(a, b) of Python: the first argument unless the second is smaller
PyMin(a, b) == IF PyLt(b, a) THEN b ELSE a

\* max(a, b) of Python: the first argument unless the second is larger
PyMax(a, b) == IF PyLt(a, b) THEN b ELSE a

IntMin(a, b) == IF b < a THEN b ELSE a

IntMax(a, b) == IF b > a THEN b ELSE a

RECURSIVE Pow(_, _)
Pow(b, e) == IF e = 0 THEN 1 ELSE b * Pow(b, e - 1)

Reverse(s) == [i \in 1..Len(s) |-> s[Len(s) + 1 - i]]

RECURSIVE SeqsUpTo(_, _)
SeqsUpTo(S, n) ==
    IF n = 0 THEN {<<>>}
    ELSE LET shorter == SeqsUpTo(S, n - 1)
         IN  shorter \cup {Append(s, x) : s \in {q \in shorter : Len(q) = n - 1}, x \in S}

----------------------------------------------------------------------------
(* fetch_bond_yield *)

DefaultYield == 440

\* history["Close"].iloc[-1] / 100: percent to decimal
PercentToDecimal(close) == IF IsNum(close) THEN Num(close.v * 10) ELSE close

\* lines 39-43, the body of the try: the provider call throws, the series is
\* empty (iloc[-1] raises IndexError), or the latest close is clamped
BondYieldTry(outcome) ==
    IF outcome.kind = "throw" THEN [raised |-> "ProviderError", value |-> 0]
    ELSE IF Len(outcome.closes) = 0 THEN [raised |-> "IndexError", value |-> 0]
    ELSE LET latest_yield == PercentToDecimal(outcome.closes[Len(outcome.closes)])
         IN  [raised |-> "", value |-> PyMax(Num(100), PyMin(latest_yield, Num(1000))).v]

\* a faulty variant of fetch_bond_yield: the handler catches the provider's error only
fetch_bond_yield_narrow_except(outcome, default_yield) ==
    LET body == BondYieldTry(outcome)
    IN  IF body.raised = "ProviderError" THEN [raised |-> "", value |-> default_yield]
        ELSE body

\* lines 36-46: except Exception returns the default as given
fetch_bond_yield(outcome, default_yield) ==
    LET body == BondYieldTry(outcome)
    IN  IF body.raised # "" THEN [raised |-> "", value |-> default_yield]
        ELSE body

----------------------------------------------------------------------------
(* calculate_cagr, get_growth_rate *)

DefaultGrowthRate == 300

\* ((final / initial) ** (1 / years) - 1) * 100 rounded down: the whole percent k
\* with (1 + k/100)^years <= final/initial < (1 + (k+1)/100)^years
CagrPercent[initial \in Int, final \in Int, years \in Int] ==
    CHOOSE k \in (0 - 100)..400 :
        /\ initial * Pow(101 + k, years) > final * Pow(100, years)
        /\ initial * Pow(100 + k, years) <= final * Pow(100, years)

\* lines 49-59; initial and final are numbers or inf
calculate_cagr(initial, final, years) ==
    IF PyLe(initial, Num(0)) \/ PyLe(final, Num(0)) \/ years <= 0 THEN None
    ELSE IF initial.t = "nan" \/ final.t = "nan" THEN None
    ELSE IF final.t = "inf" THEN None            \* inf, or inf / inf = nan: not finite
    ELSE IF initial.t = "inf" THEN Num(-100)     \* (x / inf) ** (1/years) - 1
    ELSE Num(CagrPercent[initial.v, final.v, years])

\* the windows net_income_values[-3:] and net_income_values[:3] are taken from
FloatSeqs == Seq([t : {"num", "inf", "nan"}, v : Int])

\* np.median of three values
Median3[s \in FloatSeqs] ==
    LET a == s[1]
        b == s[2]
        c == s[3]
    IN  IF PyLt(b, a)
        THEN (IF PyLt(c, b) THEN b ELSE IF PyLt(c, a) THEN c ELSE a)
        ELSE (IF PyLt(c, a) THEN a ELSE IF PyLt(c, b) THEN c ELSE b)

\* Series.dropna()
DropNa(row) == SelectSeq(row, LAMBDA x : x.t # "nan")

\* a faulty variant of ClampGrowth: the upper clamp is lost
ClampGrowthNoCeiling(cagr) == IntMax(0, cagr) * 100

\* line 81: max(0, min(cagr, 10)) / 100
ClampGrowth(cagr) == IntMax(0, IntMin(cagr, 10)) * 100

\* lines 62-84
get_growth_rate(fin, default_growth_rate) ==
    IF fin.kind = "throw" THEN default_growth_rate
    ELSE IF fin.kind = "none" \/ fin.kind = "norow" THEN default_growth_rate
    ELSE LET net_income == DropNa(fin.row)
         IN  IF Len(net_income) < 3 THEN default_growth_rate
             ELSE LET net_income_values == Reverse(net_income)
                      n == Len(net_income_values)
                      smoothed_income == Median3[SubSeq(net_income_values, n - 2, n)]
                      initial == Median3[SubSeq(net_income_values, 1, 3)]
                      years == n - 1
                      cagr == calculate_cagr(initial, smoothed_income, years)
                  IN  IF cagr = None THEN default_growth_rate ELSE ClampGrowth(cagr.v)

----------------------------------------------------------------------------
(* calculate_intrinsic_value *)

\* math.log1p(p) x 1000 for a whole percentage p
Log1pMilli(p) ==
    IF p >= 10 THEN 2398
    ELSE <<0, 693, 1099, 1386, 1609, 1792, 1946, 2079, 2197, 2303>>[p + 1]

\* lines 87-96, in cents
calculate_intrinsic_value(eps, growth_rate, yield) ==
    IF eps <= 0 \/ yield <= 0 THEN 0
    ELSE LET adjusted_growth == 7000 + (3 * IntMin(Log1pMilli(growth_rate \div 100), 2000)) \div 2
         IN  (eps * adjusted_growth * 4400) \div yield

----------------------------------------------------------------------------
(* analyze_stock of src/stockworth.py, one coroutine per ticker *)

InfoKeys == {"currentPrice", "trailingEps", "trailingPE", "priceToBook",
             "debtToEquity", "dividendYield"}

\* info.get(key, default)
Get(info, key, default) == IF info[key] = Absent THEN default ELSE info[key]

NoInfo == [k \in InfoKeys |-> Absent]

NotFetched == [kind |-> "", info |-> NoInfo]

NoFinancials == [kind |-> "", row |-> <<>>]

NoResult == [recommendation |-> "", criteria |-> <<>>]

Criterion(name, passed, value) == [name |-> name, passed |-> passed, value |-> value]

\* the coroutine analyze_stock(ticker, bond_yield), created and not yet run
NewTask(yield) ==
    [pc |-> "pending", bond_yield |-> yield,
     provider |-> NotFetched, financials |-> NoFinancials,
     current_price |-> Unset, eps |-> Unset, pe_ratio |-> Unset, pb_ratio |-> Unset,
     debt_to_equity |-> Unset, dividend_yield |-> Unset, growth_rate |-> Unset,
     intrinsic_value |-> Unset, margin_of_safety |-> Unset, result |-> NoResult]

\* lines 102-106: the provider call for the ticker's info is issued. The executor
\* calls stock.info.get with no key; what comes back is the provider's to decide,
\* so the call either hands back the info mapping or throws.
TaskStart(tk) == [tk EXCEPT !.pc = "await_info"]

\* an except clause that puts the ticker back in the queue instead of returning
TaskExceptionRetry(tk) == [tk EXCEPT !.pc = "pending", !.provider = NotFetched]

\* lines 143-145: except Exception returns ("Error", [])
TaskException(tk) ==
    [tk EXCEPT !.pc = "done", !.result = [recommendation |-> "Error", criteria |-> <<>>]]

\* not eps or eps <= 0
EpsGate(eps) == eps = None \/ (IsNum(eps) /\ eps.v <= 0)

\* lines 106-121 once the provider call returned info
TaskInfoReturn(tk, info) ==
    LET current_price == Get(info, "currentPrice", Num(0))
        eps == Get(info, "trailingEps", None)
        dividend == Get(info, "dividendYield", Num(0))
        fetched == [tk EXCEPT !.provider = [kind |-> "ok", info |-> info],
                              !.current_price = current_price, !.eps = eps]
    IN  IF EpsGate(eps)
        THEN [fetched EXCEPT !.pc = "done",
                !.result = [recommendation |-> "Not Buy",
                            criteria |-> <<Criterion("EPS > 0", FALSE, eps)>>]]
        ELSE LET metrics == [fetched EXCEPT
                                !.pe_ratio = Get(info, "trailingPE", Num(0)),
                                !.pb_ratio = Get(info, "priceToBook", Num(0)),
                                !.debt_to_equity = Get(info, "debtToEquity", Num(0))]
             IN  IF ~IsNum(dividend) THEN TaskException(metrics)   \* None * 100
                 ELSE [metrics EXCEPT !.dividend_yield = Num(dividend.v * 100),
                                      !.pc = "await_growth"]

\* lines 102-106 when the provider call throws
TaskInfoThrow(tk) ==
    TaskException([tk EXCEPT !.provider = [kind |-> "throw", info |-> NoInfo]])

\* line 121: get_growth_rate ran in the executor
TaskGrowthReturn(tk, fin) ==
    [tk EXCEPT !.financials = fin,
               !.growth_rate = Num(get_growth_rate(fin, DefaultGrowthRate)),
               !.pc = "await_intrinsic"]

\* a faulty variant of CapIntrinsic: the 5 x price cap is lost
CapIntrinsicNoCap(intrinsic_value, current_price) == intrinsic_value

\* line 124: min(intrinsic_value, 5 * current_price)
CapIntrinsic(intrinsic_value, current_price) == IntMin(intrinsic_value, 5 * current_price)

\* lines 127-128
MarginOfSafety(intrinsic_value, current_price) ==
    LET margin_of_safety ==
            IF current_price # 0
            THEN ((intrinsic_value - current_price) * 1000) \div current_price
            ELSE 0
    IN  IntMin(IntMax(margin_of_safety, 0 - 500), 1000)

\* lines 131-139
Criteria(eps, pe_ratio, pb_ratio, debt_to_equity, intrinsic_value, current_price, margin_of_safety, dividend_yield) ==
    << Criterion("EPS > 0", eps > 0, Num(eps)),
       Criterion("P/E < 20", pe_ratio < 20, Num(pe_ratio)),
       Criterion("P/B < 2", pb_ratio < 2, Num(pb_ratio)),
       Criterion("Debt-to-Equity < 0.5", debt_to_equity < 5, Num(debt_to_equity)),
       Criterion("Intrinsic Value > Current Price", intrinsic_value > current_price,
                 Num(intrinsic_value)),
       Criterion("Margin of Safety > 30%", margin_of_safety > 300, Num(margin_of_safety)),
       Criterion("Dividend Yield > 0", dividend_yield > 0, Num(dividend_yield)) >>

\* line 141
Recommend(criteria) ==
    IF \A i \in 1..Len(criteria) : criteria[i].passed THEN "Buy" ELSE "Not Buy"

\* lines 122-141: calculate_intrinsic_value ran in the executor
TaskIntrinsicReturn(tk) ==
    LET uncapped == calculate_intrinsic_value(tk.eps.v, tk.growth_rate.v, tk.bond_yield)
    IN  IF ~IsNum(tk.current_price)                   \* 5 * None
        THEN TaskException([tk EXCEPT !.intrinsic_value = Num(uncapped)])
        ELSE LET price == tk.current_price.v
                 intrinsic_value == CapIntrinsic(uncapped, price)
                 margin_of_safety == MarginOfSafety(intrinsic_value, price)
                 valued == [tk EXCEPT !.intrinsic_value = Num(intrinsic_value),
                                      !.margin_of_safety = Num(margin_of_safety)]
             IN  IF ~IsNum(tk.pe_ratio) \/ ~IsNum(tk.pb_ratio) \/ ~IsNum(tk.debt_to_equity)
                 THEN TaskException(valued)           \* None < 20
                 ELSE LET criteria == Criteria(tk.eps.v, tk.pe_ratio.v, tk.pb_ratio.v,
                                               tk.debt_to_equity.v, intrinsic_value, price,
                                               margin_of_safety, tk.dividend_yield.v)
                      IN  [valued EXCEPT !.pc = "done",
                              !.result = [recommendation |-> Recommend(criteria),
                                          criteria |-> criteria]]

\* analyze_stock awaited alone: the same steps, one after the other
AnalyzeAlone(provider, fin, yield) ==
    LET started == TaskStart(NewTask(yield))
        fetched == IF provider.kind = "throw" THEN TaskInfoThrow(started)
                   ELSE TaskInfoReturn(started, provider.info)
        grown == IF fetched.pc = "await_growth" THEN TaskGrowthReturn(fetched, fin)
                 ELSE fetched
    IN  IF grown.pc = "await_intrinsic" THEN TaskIntrinsicReturn(grown) ELSE grown

----------------------------------------------------------------------------
(* analyze_stock of src/main.py, the sequential variant *)

LegacyKeys == InfoKeys \cup {"earningsGrowth"}

\* float(x) if isinstance(x, (int, float)) else 0
AsFloat(x) == IF IsNum(x) THEN x.v ELSE 0

\* lines 44-50, times 10
CurrentRatio(balance_sheet) ==
    IF balance_sheet.kind = "ok"
    THEN (balance_sheet.assets * 10) \div balance_sheet.liabilities
    ELSE 0

\* line 59: no clamp
LegacyMargin(intrinsic_value, current_price) ==
    IF current_price # 0
    THEN ((intrinsic_value - current_price) * 1000) \div current_price
    ELSE 0

\* lines 17-87; bookValue and sector are read and never used
main_analyze_stock(provider, balance_sheet) ==
    LET info == provider.info
        dividend == Get(info, "dividendYield", Num(0))
        growth == Get(info, "earningsGrowth", Num(0))
        failed == [recommendation |-> "Error", margin_of_safety |-> Unset,
                   intrinsic_value |-> Unset, passed |-> <<>>]
    IN  IF provider.kind = "throw" \/ balance_sheet.kind = "throw" THEN failed
        ELSE IF dividend = None \/ growth = None THEN failed     \* None * 100
        ELSE LET current_price == AsFloat(Get(info, "currentPrice", Num(0)))
                 pe_ratio == AsFloat(Get(info, "trailingPE", Num(0)))
                 pb_ratio == AsFloat(Get(info, "priceToBook", Num(0)))
                 dividend_yield == AsFloat(Num(dividend.v * 100))
                 debt_to_equity == AsFloat(Get(info, "debtToEquity", Num(0)))
                 earnings_growth == AsFloat(Num(growth.v * 100))
                 eps == AsFloat(Get(info, "trailingEps", Num(0)))
                 current_ratio == CurrentRatio(balance_sheet)
                 intrinsic_value == eps * 1850      \* eps * (8.5 + 2 * 5) * (4.4 / 4.4)
                 margin_of_safety == LegacyMargin(intrinsic_value, current_price)
                 passed == << pe_ratio # 0 /\ pe_ratio < 20,
                              pb_ratio # 0 /\ pb_ratio < 2,
                              debt_to_equity # 0 /\ debt_to_equity < 5,
                              current_ratio # 0 /\ current_ratio > 15,
                              earnings_growth # 0 /\ earnings_growth > 500,
                              dividend_yield # 0 /\ dividend_yield > 0,
                              eps > 0,
                              dividend_yield > 0 >>
             IN  [recommendation |->
                      IF (\A i \in 1..Len(passed) : passed[i]) /\ margin_of_safety > 300
                      THEN "Buy" ELSE "Not Buy",
                  margin_of_safety |-> Num(margin_of_safety),
                  intrinsic_value |-> Num(intrinsic_value),
                  passed |-> passed]

----------------------------------------------------------------------------
(* what the market data provider can answer *)

Throw == [kind |-> "throw", info |-> NoInfo]

PriceValues == {Absent, None, Num(0), Num(1000), Num(150000)}
EpsValues == {Absent, None, Num(0 - 1), Num(0), Num(1), Num(2)}
PEValues == {Absent, None, Num(15), Num(25)}
PBValues == {Absent, None, Num(1), Num(3)}
DEValues == {Absent, None, Num(3), Num(7)}
DYValues == {Absent, None, Num(0), Num(2)}

MakeInfo(price, eps, pe, pb, de, dy) ==
    [k \in InfoKeys |->
        CASE k = "currentPrice" -> price
          [] k = "trailingEps" -> eps
          [] k = "trailingPE" -> pe
          [] k = "priceToBook" -> pb
          [] k = "debtToEquity" -> de
          [] OTHER -> dy]

Infos ==
    {MakeInfo(price, eps, pe, pb, de, dy) :
        price \in PriceValues, eps \in EpsValues, pe \in PEValues,
        pb \in PBValues, de \in DEValues, dy \in DYValues}

ProviderOutcomes == {Throw} \cup {[kind |-> "ok", info |-> i] : i \in Infos}

IncomeValues == {NaN, Inf} \cup {Num(n) : n \in (0 - 1)..MaxIncome}

Row(r) == [kind |-> "row", row |-> r]

FinOutcomes ==
    {[kind |-> k, row |-> <<>>] : k \in {"throw", "none", "norow"}}
        \cup {Row(r) : r \in SeqsUpTo(IncomeValues, MaxHist)}

\* a few histories, newest first: a failed fetch, 10 % and more, 4 %
SomeFins ==
    {[kind |-> "throw", row |-> <<>>], Row(<<Num(3), Num(3), Num(2), Num(1)>>),
     Row(<<Num(30), Num(29), Num(26), Num(25)>>)}

CloseValues == {NaN, Inf} \cup {Num(c) : c \in {0 - 5, 0, 5, 9, 10, 11, 44, 99, 100, 101, 250}}

BondOutcomes ==
    {[kind |-> "throw", closes |-> <<>>]}
        \cup {[kind |-> "ok", closes |-> c] : c \in SeqsUpTo(CloseValues, MaxCloses)}

SomeYields == {100, DefaultYield, 1000}

LegacyInfos ==
    {[k \in LegacyKeys |-> IF k = "earningsGrowth" THEN eg ELSE i[k]] :
        i \in {j \in Infos : j["trailingPE"] \in {Absent, Num(15)}
                              /\ j["priceToBook"] \in {Absent, Num(1)}
                              /\ j["debtToEquity"] \in {Absent, Num(3)}
                              /\ j["dividendYield"] # Num(0)},
        eg \in {Absent, None, Num(10)}}

BalanceSheets ==
    {[kind |-> k, assets |-> 0, liabilities |-> 1] : k \in {"throw", "none", "norow"}}
        \cup {[kind |-> "ok", assets |-> a, liabilities |-> 1] : a \in {1, 2}}

----------------------------------------------------------------------------
(* the functions called on their own *)

NoCall == [fn |-> "", args |-> <<>>]

NoRet == [done |-> FALSE, raised |-> "", value |-> 0]

\* the calls made: each function on the arguments it can meet
Calls ==
    \/ \E o \in BondOutcomes, d \in {DefaultYield, 5, 2000} :
          call = [fn |-> "fetch_bond_yield", args |-> <<o, d>>]
    \/ \E i \in IncomeValues \ {NaN}, f \in IncomeValues \ {NaN}, y \in (0 - 1)..(MaxHist - 1) :
          call = [fn |-> "calculate_cagr", args |-> <<i, f, y>>]
    \/ \E f \in FinOutcomes \cup SomeFins :
          call = [fn |-> "get_growth_rate", args |-> <<f, DefaultGrowthRate>>]
    \/ \E e \in (0 - 1)..2, g \in 0..20, y \in {0 - 100, 0} \cup SomeYields :
          call = [fn |-> "calculate_intrinsic_value", args |-> <<e, g * 50, y>>]
    \/ \E p \in ProviderOutcomes, f \in SomeFins, y \in SomeYields :
          call = [fn |-> "analyze_stock", args |-> <<p, f, y>>]
    \/ \E i \in LegacyInfos, b \in BalanceSheets, k \in {"throw", "ok"} :
          call = [fn |-> "main_analyze_stock", args |-> <<[kind |-> k, info |-> i], b>>]

Returned(value) == [done |-> TRUE, raised |-> "", value |-> value]

Call_fetch_bond_yield ==
    /\ call.fn = "fetch_bond_yield" /\ ~ret.done
    /\ ret' = LET r == fetch_bond_yield(call.args[1], call.args[2])
               IN  [done |-> TRUE, raised |-> r.raised, value |-> r.value]
    /\ UNCHANGED <<call, batchVars>>

Call_calculate_cagr ==
    /\ call.fn = "calculate_cagr" /\ ~ret.done
    /\ ret' = Returned(calculate_cagr(call.args[1], call.args[2], call.args[3]))
    /\ UNCHANGED <<call, batchVars>>

Call_get_growth_rate ==
    /\ call.fn = "get_growth_rate" /\ ~ret.done
    /\ ret' = Returned(get_growth_rate(call.args[1], call.args[2]))
    /\ UNCHANGED <<call, batchVars>>

Call_calculate_intrinsic_value ==
    /\ call.fn = "calculate_intrinsic_value" /\ ~ret.done
    /\ ret' = Returned(calculate_intrinsic_value(call.args[1], call.args[2], call.args[3]))
    /\ UNCHANGED <<call, batchVars>>

Call_analyze_stock ==
    /\ call.fn = "analyze_stock" /\ ~ret.done
    /\ ret' = Returned(AnalyzeAlone(call.args[1], call.args[2], call.args[3]))
    /\ UNCHANGED <<call, batchVars>>

Call_main_analyze_stock ==
    /\ call.fn = "main_analyze_stock" /\ ~ret.done
    /\ ret' = Returned(main_analyze_stock(call.args[1], call.args[2]))
    /\ UNCHANGED <<call, batchVars>>

BatchIdle ==
    /\ mainPc = "idle" /\ bond_yield = 0 /\ bond_calls = 0 /\ tickers = <<>>
    /\ tasks = <<>> /\ results = <<>> /\ idx = 0 /\ buy_recommendations = <<>>
    /\ errors = <<>> /\ unavailable_file = <<>>

FnInit == BatchIdle /\ Calls /\ ret = NoRet

FnNext ==
    \/ Call_fetch_bond_yield
    \/ Call_calculate_cagr
    \/ Call_get_growth_rate
    \/ Call_calculate_intrinsic_value
    \/ Call_analyze_stock
    \/ Call_main_analyze_stock

FnSpec == FnInit /\ [][FnNext]_vars

----------------------------------------------------------------------------
(* main of src/stockworth.py: the concurrent batch *)

TickerIds == 1..NumTickers

\* the lists tickers.json holds: n distinct tickers, in rising or in falling order
TickerLists ==
    {[i \in 1..n |-> i] : n \in 0..NumTickers}
        \cup {[i \in 1..n |-> n + 1 - i] : n \in 0..NumTickers}

\* what the provider answers in a batch: a ticker that passes every criterion, one
\* with negative EPS, one whose P/E is None, one priced above its value
BatchInfos ==
    {MakeInfo(Num(1000), Num(2), Num(15), Num(1), Num(3), Num(2)),
     MakeInfo(Num(1000), Num(0 - 1), Num(15), Num(1), Num(3), Num(2)),
     MakeInfo(Num(1000), Num(2), None, Num(1), Num(3), Num(2)),
     MakeInfo(Num(150000), Num(1), Num(15), Num(1), Num(3), Num(2))}

BatchFins == {[kind |-> "throw", row |-> <<>>], Row(<<Num(3), Num(3), Num(2), Num(1)>>)}

BatchBondOutcomes ==
    {[kind |-> "throw", closes |-> <<>>], [kind |-> "ok", closes |-> <<Num(25)>>]}

\* a faulty variant of MakeTasks: every coroutine gets the default yield
MakeTasksDefaultYield(list, yield) ==
    [t \in {list[i] : i \in 1..Len(list)} |-> NewTask(DefaultYield)]

\* line 160: one coroutine per ticker, each given main's bond_yield
MakeTasks(list, yield) == [t \in {list[i] : i \in 1..Len(list)} |-> NewTask(yield)]

\* a faulty variant of Settle: a ticker that ends in Error ends its siblings too
SettleAbortingSiblings(tks, t, tk) ==
    [u \in DOMAIN tks |->
        IF u = t THEN tk
        ELSE IF tk.result.recommendation = "Error" /\ tks[u].pc # "done"
             THEN TaskException(tks[u])
             ELSE tks[u]]

\* lines 99-145, 161: a step of one coroutine writes its own locals and result only
Settle(tks, t, tk) == [tks EXCEPT ![t] = tk]

\* what gather hands back for a coroutine: the value it returned
GatherResult(tk) == [exception |-> FALSE, value |-> tk.result]

\* line 149
FetchBondYield ==
    /\ mainPc = "start"
    /\ \E outcome \in BatchBondOutcomes :
          bond_yield' = fetch_bond_yield(outcome, DefaultYield).value
    /\ bond_calls' = bond_calls + 1
    /\ mainPc' = "load"
    /\ UNCHANGED <<tickers, tasks, results, idx, buy_recommendations, errors,
                   unavailable_file, fnVars>>

\* lines 152-154
LoadTickers ==
    /\ mainPc = "load"
    /\ tickers' \in TickerLists
    /\ mainPc' = "create"
    /\ UNCHANGED <<bond_yield, bond_calls, tasks, results, idx, buy_recommendations,
                   errors, unavailable_file, fnVars>>

\* lines 155-157: FileNotFoundError, exit(1)
TickersFileMissing ==
    /\ mainPc = "load"
    /\ mainPc' = "exited"
    /\ UNCHANGED <<bond_yield, bond_calls, tickers, tasks, results, idx,
                   buy_recommendations, errors, unavailable_file, fnVars>>

\* lines 160-161: the coroutines are made and handed to gather
CreateTasks ==
    /\ mainPc = "create"
    /\ tasks' = MakeTasks(tickers, bond_yield)
    /\ mainPc' = "gather"
    /\ UNCHANGED <<bond_yield, bond_calls, tickers, results, idx, buy_recommendations,
                   errors, unavailable_file, fnVars>>

TaskFrame ==
    UNCHANGED <<mainPc, bond_yield, bond_calls, tickers, results, idx,
                buy_recommendations, errors, unavailable_file, fnVars>>

Start(t) ==
    /\ mainPc = "gather" /\ t \in DOMAIN tasks /\ tasks[t].pc = "pending"
    /\ tasks' = Settle(tasks, t, TaskStart(tasks[t]))
    /\ TaskFrame

InfoReturn(t) ==
    /\ mainPc = "gather" /\ t \in DOMAIN tasks /\ tasks[t].pc = "await_info"
    /\ \E info \in BatchInfos : tasks' = Settle(tasks, t, TaskInfoReturn(tasks[t], info))
    /\ TaskFrame

InfoThrow(t) ==
    /\ mainPc = "gather" /\ t \in DOMAIN tasks /\ tasks[t].pc = "await_info"
    /\ tasks' = Settle(tasks, t, TaskInfoThrow(tasks[t]))
    /\ TaskFrame

GrowthReturn(t) ==
    /\ mainPc = "gather" /\ t \in DOMAIN tasks /\ tasks[t].pc = "await_growth"
    /\ \E fin \in BatchFins : tasks' = Settle(tasks, t, TaskGrowthReturn(tasks[t], fin))
    /\ TaskFrame

IntrinsicReturn(t) ==
    /\ mainPc = "gather" /\ t \in DOMAIN tasks /\ tasks[t].pc = "await_intrinsic"
    /\ tasks' = Settle(tasks, t, TaskIntrinsicReturn(tasks[t]))
    /\ TaskFrame

\* lines 161-165: gather returns once every coroutine is done
GatherDone ==
    /\ mainPc = "gather"
    /\ \A t \in DOMAIN tasks : tasks[t].pc = "done"
    /\ results' = [i \in 1..Len(tickers) |-> GatherResult(tasks[tickers[i]])]
    /\ buy_recommendations' = <<>>
    /\ errors' = <<>>
    /\ idx' = 1
    /\ mainPc' = "process"
    /\ UNCHANGED <<bond_yield, bond_calls, tickers, tasks, unavailable_file, fnVars>>

\* lines 167-174: one turn of the loop over zip(tickers, results)
ProcessResult ==
    /\ mainPc = "process" /\ idx <= Len(tickers)
    /\ LET ticker == tickers[idx]
           result == results[idx]
       IN  IF result.exception
           THEN /\ errors' = Append(errors, ticker)
                /\ UNCHANGED buy_recommendations
           ELSE /\ buy_recommendations' =
                      IF result.value.recommendation = "Buy"
                      THEN Append(buy_recommendations, <<ticker, result.value.criteria>>)
                      ELSE buy_recommendations
                /\ UNCHANGED errors
    /\ idx' = idx + 1
    /\ UNCHANGED <<mainPc, bond_yield, bond_calls, tickers, tasks, results,
                   unavailable_file, fnVars>>

\* lines 176-185: the buy list is printed and errors is written to the file
SaveErrors ==
    /\ mainPc = "process" /\ idx > Len(tickers)
    /\ unavailable_file' = errors
    /\ mainPc' = "done"
    /\ UNCHANGED <<bond_yield, bond_calls, tickers, tasks, results, idx,
                   buy_recommendations, errors, fnVars>>

Init ==
    /\ mainPc = "start" /\ bond_yield = 0 /\ bond_calls = 0 /\ tickers = <<>>
    /\ tasks = <<>> /\ results = <<>> /\ idx = 0 /\ buy_recommendations = <<>>
    /\ errors = <<>> /\ unavailable_file = <<>>
    /\ call = NoCall /\ ret = NoRet

Next ==
    \/ FetchBondYield
    \/ LoadTickers
    \/ TickersFileMissing
    \/ CreateTasks
    \/ \E t \in TickerIds : Start(t)
    \/ \E t \in TickerIds : InfoReturn(t)
    \/ \E t \in TickerIds : InfoThrow(t)
    \/ \E t \in TickerIds : GrowthReturn(t)
    \/ \E t \in TickerIds : IntrinsicReturn(t)
    \/ GatherDone
    \/ ProcessResult
    \/ SaveErrors

Spec == Init /\ [][Next]_vars

\* the event loop keeps running while a coroutine or main can take a step, and every
\* provider call returns or throws
FairSpec == Spec /\ WF_vars(Next)

----------------------------------------------------------------------------
(* the claims, batch *)

Threw(t) == tasks[t].provider.kind = "throw"

Alone(t) == AnalyzeAlone(tasks[t].provider, tasks[t].financials, bond_yield).result

\* the state of a ticker in the batch
TickerState(tk) ==
    CASE tk.pc = "pending" -> "Pending"
      [] tk.pc \in {"await_info", "await_growth"} -> "Fetching"
      [] tk.pc = "await_intrinsic" -> "Evaluating"
      [] tk.result.recommendation = "Buy" -> "Bought"
      [] tk.result.recommendation = "Not Buy" -> "NotBought"
      [] OTHER -> "Failed"

Terminal == {"Bought", "NotBought", "Failed"}

\* C1: when the batch has finished, the error list holds exactly the tickers whose
\* provider call threw, in the order of the input list.
C1_ErrorListIsThrowers ==
    mainPc = "done" =>
        /\ errors = SelectSeq(tickers, Threw)
        /\ unavailable_file = errors

\* C2: under every interleaving, each finished ticker holds the recommendation and
\* criteria that analyze_stock alone returns for the same provider data and bond
\* yield, whatever happened to its siblings, and gather hands back exactly those.
C2_SiblingsUnaffected ==
    /\ \A t \in DOMAIN tasks : tasks[t].pc = "done" => tasks[t].result = Alone(t)
    /\ mainPc \in {"process", "done"} =>
          \A i \in 1..Len(tickers) :
              ~results[i].exception /\ results[i].value = Alone(tickers[i])

\* C2 witness: one ticker's provider call threw and a sibling came out as Buy with
\* its seven criteria.
C2_Witness ==
    /\ mainPc = "process"
    /\ \E t, u \in DOMAIN tasks :
          /\ t # u /\ Threw(t)
          /\ tasks[u].result.recommendation = "Buy"
          /\ Len(tasks[u].result.criteria) = 7

\* a ticker's change of state follows Pending -> Fetching -> Evaluating -> terminal
StrictStep(from, to) ==
    \/ from = "Pending" /\ to = "Fetching"
    \/ from = "Fetching" /\ to = "Evaluating"
    \/ from = "Evaluating" /\ to \in Terminal

\* the same, and Fetching may end in Failed or NotBought without Evaluating
ForwardStep(from, to) ==
    \/ StrictStep(from, to)
    \/ from = "Fetching" /\ to \in {"Failed", "NotBought"}

AllTerminal == \A t \in DOMAIN tasks : TickerState(tasks[t]) \in Terminal

\* once terminal, a ticker's coroutine is never touched again
TerminalIsFinal ==
    \A t \in DOMAIN tasks :
        TickerState(tasks[t]) \in Terminal => t \in DOMAIN tasks' /\ tasks'[t] = tasks[t]

\* C3 as claimed: every change of a ticker's state is a step of Pending -> Fetching ->
\* Evaluating -> terminal; a terminal ticker never changes and is not re-attempted;
\* aggregation starts only when every ticker is terminal; and it starts eventually.
C3_Original ==
    /\ [][\A t \in DOMAIN tasks :
             TickerState(tasks'[t]) # TickerState(tasks[t]) =>
                 StrictStep(TickerState(tasks[t]), TickerState(tasks'[t]))]_vars
    /\ [][TerminalIsFinal]_vars
    /\ [](mainPc \in {"process", "done"} => AllTerminal)
    /\ (mainPc = "gather") ~> (mainPc = "process")

\* C3 as amended: the same, except that a ticker may leave Fetching for Failed (its
\* provider call threw) or for NotBought (EPS <= 0) without passing Evaluating.
C3_Amended ==
    /\ [][\A t \in DOMAIN tasks :
             TickerState(tasks'[t]) # TickerState(tasks[t]) =>
                 ForwardStep(TickerState(tasks[t]), TickerState(tasks'[t]))]_vars
    /\ [][TerminalIsFinal]_vars
    /\ [](mainPc \in {"process", "done"} => AllTerminal)
    /\ (mainPc = "gather") ~> (mainPc = "process")

\* C3 witness: aggregation has run over a batch in which one ticker failed in its
\* fetch and another was stopped by the EPS gate.
C3_Witness ==
    /\ mainPc = "done"
    /\ \E t, u \in DOMAIN tasks :
          /\ Threw(t) /\ TickerState(tasks[t]) = "Failed"
          /\ TickerState(tasks[u]) = "NotBought" /\ Len(tasks[u].result.criteria) = 1

\* C4: the bond yield is resolved exactly once, before any ticker's fetch starts;
\* every analysis holds that value; no step changes it afterwards.
C4_BondYieldOnce ==
    /\ [](/\ bond_calls <= 1
          /\ mainPc \notin {"start", "idle"} => bond_calls = 1
          /\ \A t \in DOMAIN tasks :
                /\ tasks[t].bond_yield = bond_yield
                /\ tasks[t].pc # "pending" => bond_calls = 1)
    /\ [][mainPc # "start" => bond_yield' = bond_yield /\ bond_calls' = bond_calls]_vars

\* C4 witness: a ticker was analysed to the end with the yield fetched from ^TNX.
C4_Witness ==
    /\ bond_yield = 250
    /\ \E t \in DOMAIN tasks :
          /\ tasks[t].pc = "done" /\ tasks[t].bond_yield = 250
          /\ Len(tasks[t].result.criteria) = 7

----------------------------------------------------------------------------
(* the claims, functions *)

Ran(fn) == call.fn = fn /\ ret.done

\* C5: the intrinsic value analyze_stock keeps is at most 5 x currentPrice, also for
\* a price of 0, and calculate_intrinsic_value is 0 when eps <= 0 or bond yield <= 0.
C5_IntrinsicCapped ==
    /\ Ran("analyze_stock") /\ IsNum(ret.value.intrinsic_value)
          /\ IsNum(ret.value.current_price)
          => ret.value.intrinsic_value.v <= 5 * ret.value.current_price.v
    /\ Ran("calculate_intrinsic_value") /\ (call.args[1] <= 0 \/ call.args[3] <= 0)
          => ret.value = 0

\* C5 witness: an analysis whose value was cut down to 5 x price.
C5_Witness ==
    /\ Ran("analyze_stock")
    /\ ret.value.current_price = Num(1000)
    /\ ret.value.intrinsic_value = Num(5000)
    /\ calculate_intrinsic_value(ret.value.eps.v, ret.value.growth_rate.v,
                                 ret.value.bond_yield) > 5000

InMarginRange(m) == IsNum(m) => (0 - 500) <= m.v /\ m.v <= 1000

\* C6: the margin of safety the criteria are evaluated with lies in [-50, 100], in
\* both analyses of the repository, and is 0 when the price is 0.
C6_MarginClamped ==
    /\ Ran("analyze_stock") =>
          /\ InMarginRange(ret.value.margin_of_safety)
          /\ IsNum(ret.value.margin_of_safety) /\ ret.value.current_price = Num(0)
                => ret.value.margin_of_safety.v = 0
    /\ Ran("main_analyze_stock") => InMarginRange(ret.value.margin_of_safety)

\* the part of C6 that src/stockworth.py alone answers for
C6_StockworthOnly ==
    Ran("analyze_stock") =>
        /\ InMarginRange(ret.value.margin_of_safety)
        /\ IsNum(ret.value.margin_of_safety) /\ ret.value.current_price = Num(0)
              => ret.value.margin_of_safety.v = 0

CriteriaNames ==
    <<"EPS > 0", "P/E < 20", "P/B < 2", "Debt-to-Equity < 0.5",
      "Intrinsic Value > Current Price", "Margin of Safety > 30%", "Dividend Yield > 0">>

FetchedEps == Get(call.args[1].info, "trailingEps", None)

\* C7: with EPS <= 0 the analysis returns Not Buy and the one criterion EPS > 0,
\* failed, with the EPS seen, and computes neither growth rate nor intrinsic value;
\* with EPS > 0 and a fetch that succeeded it returns the seven criteria in order.
C7_GateOrSeven ==
    Ran("analyze_stock") /\ call.args[1].kind = "ok" /\ IsNum(FetchedEps) =>
        /\ FetchedEps.v <= 0 =>
              /\ ret.value.result =
                     [recommendation |-> "Not Buy",
                      criteria |-> <<Criterion("EPS > 0", FALSE, FetchedEps)>>]
              /\ ret.value.growth_rate = Unset
              /\ ret.value.intrinsic_value = Unset
        /\ FetchedEps.v > 0 =>
              /\ Len(ret.value.result.criteria) = 7
              /\ \A i \in 1..7 : ret.value.result.criteria[i].name = CriteriaNames[i]

\* the criterion a key of info decides
CriterionOf(key) ==
    CASE key = "trailingPE" -> 2
      [] key = "priceToBook" -> 3
      [] key = "debtToEquity" -> 4
      [] OTHER -> 7

\* C8: with EPS > 0, a P/E, P/B, debt-to-equity or dividend yield that is missing or
\* not a number gives Not Buy with all seven criteria, its own criterion failed.
C8_MissingFieldFails ==
    Ran("analyze_stock") /\ call.args[1].kind = "ok" /\ IsNum(FetchedEps)
        /\ FetchedEps.v > 0 /\ IsNum(Get(call.args[1].info, "currentPrice", Num(0))) =>
        \A key \in {"trailingPE", "priceToBook", "debtToEquity", "dividendYield"} :
            call.args[1].info[key] \in {Absent, None} =>
                /\ ret.value.result.recommendation = "Not Buy"
                /\ Len(ret.value.result.criteria) = 7
                /\ ~ret.value.result.criteria[CriterionOf(key)].passed

LatestClose == call.args[1].closes[Len(call.args[1].closes)]

FetchSucceeded == call.args[1].kind = "ok" /\ Len(call.args[1].closes) > 0

\* C9: fetch_bond_yield never raises; a fetched close comes back divided by 100 and
\* clamped to [0.01, 0.10]; a failed fetch gives the default as given; with the
\* default 0.044 the result is always in [0.01, 0.10].
C9_BondYield ==
    Ran("fetch_bond_yield") =>
        /\ ret.raised = ""
        /\ FetchSucceeded => 100 <= ret.value /\ ret.value <= 1000
        /\ FetchSucceeded /\ IsNum(LatestClose) =>
              ret.value = (IF LatestClose.v * 10 < 100 THEN 100
                           ELSE IF LatestClose.v * 10 > 1000 THEN 1000
                           ELSE LatestClose.v * 10)
        /\ ~FetchSucceeded => ret.value = call.args[2]
        /\ call.args[2] = DefaultYield => 100 <= ret.value /\ ret.value <= 1000

\* C9 witness: a close of 25 % came back clamped to 0.10.
C9_Witness ==
    /\ Ran("fetch_bond_yield")
    /\ FetchSucceeded /\ LatestClose = Num(250) /\ ret.value = 1000

Observations == DropNa(call.args[1].row)

OldestThree == Median3[SubSeq(Reverse(Observations), 1, 3)]

LatestThree ==
    Median3[SubSeq(Reverse(Observations), Len(Observations) - 2, Len(Observations))]

\* C10: get_growth_rate with the default 0.03 returns a rate in [0, 0.10] on every
\* path, and exactly 0.03 when the history cannot be fetched, has no net income row,
\* has fewer than 3 observations, or has a median that is not positive or not finite.
C10_GrowthRateBounded ==
    Ran("get_growth_rate") =>
        /\ 0 <= ret.value /\ ret.value <= 1000
        /\ call.args[1].kind # "row" => ret.value = DefaultGrowthRate
        /\ call.args[1].kind = "row" /\ Len(Observations) < 3 =>
              ret.value = DefaultGrowthRate
        /\ call.args[1].kind = "row" /\ Len(Observations) >= 3
              /\ (PyLe(OldestThree, Num(0)) \/ PyLe(LatestThree, Num(0))
                    \/ LatestThree = Inf)
              => ret.value = DefaultGrowthRate
        /\ call.args[1].kind = "row" /\ Len(Observations) >= 3
              /\ IsNum(OldestThree) /\ IsNum(LatestThree) /\ OldestThree.v > 0
              /\ LatestThree.v > 0 =>
              /\ LatestThree.v <= OldestThree.v => ret.value = 0
              /\ LatestThree.v * Pow(10, Len(Observations) - 1)
                     >= OldestThree.v * Pow(11, Len(Observations) - 1)
                     => ret.value = 1000

\* C10 witness: a history whose CAGR is above 10 % came back as 0.10.
C10_Witness ==
    /\ Ran("get_growth_rate")
    /\ call.args[1].kind = "row" /\ Len(Observations) = 4
    /\ calculate_cagr(OldestThree, LatestThree, 3).v > 10
    /\ ret.value = 1000

====
